---- MODULE Spec2Model ----
(***************************************************************************)
(* Model of apps/texrecon/texrecon.cpp: the texturing pipeline driven by   *)
(* main (file-writing mode) and by reconstructTexture (in-memory mode),    *)
(* the in-memory consolidation ::build_model, and the parallel loop that   *)
(* calls adjust_colors on every texture patch.                             *)
(*                                                                         *)
(* The stages implemented in the tex library (prepare_mesh, view_selection,*)
(* generate_texture_patches, ...) are calls whose outputs are drawn        *)
(* nondeterministically from the values their signatures allow; each call  *)
(* is recorded in the history variable trace.  Timer measurements and      *)
(* console progress output carry no state and are left out.                *)
(***************************************************************************)
EXTENDS Integers, Sequences, FiniteSets, TLC

\* ---------------------------------------------------------------- bounds
MaxFaces == 3   \* faces of the mesh, and entries of a labeling file
MaxViews == 2   \* texture views of the scene (K)
MaxLabel == 3   \* largest label value a labeling file may hold
MaxVerts == 3   \* vertices of the mesh handed to reconstructTexture
MaxTris == 2    \* triangles of that mesh
MaxTexCoords == 4   \* texcoords of the first texture atlas
MaxAtlases == 2     \* atlases produced by generate_texture_atlases
MaxPatches == 3     \* texture patches produced by generate_texture_patches
MaxPatchFaces == 2  \* faces of one texture patch
MaxThreads == 2     \* threads of the OpenMP team running the patch loop

\* ----------------------------------------------------------------- state
VARIABLES
    mode,           \* "cli": main, "lib": reconstructTexture
    pc,             \* position of the control thread
    conf,           \* Arguments conf
    num_faces,      \* mesh->get_faces().size() / 3
    num_views,      \* texture_views.size()
    graph,          \* tex::Graph: the label of every node, node i at i + 1
    labeling,       \* std::vector<std::size_t> labeling read from file
    i,              \* index of the transfer loop
    trace,          \* history: the stage calls made so far, in order
    patch_input,    \* history: graph labels seen by each generate_texture_patches
    cerr,           \* message printed to std::cerr ("" when none)
    exit_status,    \* "none", "EXIT_SUCCESS", "EXIT_FAILURE"
    ret,            \* value returned by reconstructTexture ("<none>" before)
    \* the caller's buffers of reconstructTexture, which ::build_model fills
    points,         \* std::vector<glm::vec3>
    normals,        \* std::vector<glm::vec3>
    texCoords,      \* std::vector<glm::vec2>
    triangles,      \* std::vector<glm::ivec3>
    textureWidth,
    textureHeight,
    textureData,    \* std::vector<uint8_t>
    mesh,           \* mve::TriangleMesh: vertices, normals, faces (flat)
    texture_atlases,    \* tex::TextureAtlases
    \* the parallel loop over the texture patches
    texture_patches,        \* tex::TexturePatches, patch i at i + 1
    texture_patch_counter,  \* count of ProgressCounter texture_patch_counter
    next_iteration,         \* schedule(dynamic): first iteration not handed out
    threads                 \* the team: per thread its position, i and locals

\* the buffers of the in-memory mode
bvars == <<points, normals, texCoords, triangles, textureWidth, textureHeight,
           textureData, mesh, texture_atlases>>
\* the state of the pipeline
pvars == <<conf, num_faces, num_views, graph, labeling, i, trace, patch_input,
           cerr, exit_status>>

\* the state of the parallel loop
rvars == <<texture_patches, texture_patch_counter, next_iteration, threads>>

vars == <<mode, pc, conf, num_faces, num_views, graph, labeling, i, trace,
          patch_input, cerr, exit_status, ret, bvars, rvars>>

NoReturn == "<none>"
WrongLabeling == "Wrong labeling file for this mesh/scene combination... aborting!"
CostLoadFailed == "failed!"
NoDestination == "Destination directory does not exist!"
NoMesh == "Could not load mesh"
BadArguments == "invalid_argument"

\* Arguments as main reads them; a file name is modelled by "is non-empty".
Arguments ==
    [labeling_file : BOOLEAN, data_cost_file : BOOLEAN,
     write_intermediate_results : BOOLEAN, write_view_selection_model : BOOLEAN,
     global_seam_leveling : BOOLEAN, local_seam_leveling : BOOLEAN]

\* Arguments conf before it is assigned; no field is read in that state.
DefaultArguments ==
    [labeling_file |-> FALSE, data_cost_file |-> FALSE,
     write_intermediate_results |-> FALSE, write_view_selection_model |-> FALSE,
     global_seam_leveling |-> FALSE, local_seam_leveling |-> FALSE]

\* A default-constructed graph of n nodes: every label 0.
NewGraph(n) == [k \in 1..n |-> 0]

\* labeling.size() != graph.num_nodes()
SizeMismatch_gt(L) == Len(L) > Len(graph)
SizeMismatch(L) == Len(L) # Len(graph)

\* label > texture_views.size()
LabelOutOfRange_ge(label) == label >= num_views
LabelOutOfRange(label) == label > num_views

\* graph.set_label(idx, label), idx counted from 0
SetLabel_first(g, idx, label) == [g EXCEPT ![1] = label]
SetLabel(g, idx, label) == [g EXCEPT ![idx + 1] = label]

\* if (conf.labeling_file.empty()) ... else ...
LabelingBranch_always == "data_costs"
LabelingBranch == IF conf.labeling_file THEN "load_labeling" ELSE "data_costs"

Log(e) == trace' = Append(trace, e)

\* mve::TriangleMesh::create()
EmptyMesh == [vertices |-> << >>, normals |-> << >>, faces |-> << >>]

\* Before the pipeline has run: nothing computed, nothing reported.
InitPipeline ==
    /\ conf = DefaultArguments
    /\ num_faces = 0
    /\ num_views = 0
    /\ graph = << >>
    /\ labeling = << >>
    /\ i = 0
    /\ trace = << >>
    /\ patch_input = << >>
    /\ cerr = ""
    /\ exit_status = "none"
    /\ ret = NoReturn

\* No texture patch generated, no team running.
InitPatches ==
    /\ texture_patches = << >>
    /\ texture_patch_counter = 0
    /\ next_iteration = 0
    /\ threads = << >>

Init ==
    /\ mode \in {"cli", "lib"}
    /\ pc = "start"
    /\ InitPipeline
    /\ InitPatches
    /\ points = << >> /\ normals = << >> /\ texCoords = << >> /\ triangles = << >>
    /\ textureWidth = 0 /\ textureHeight = 0 /\ textureData = << >>
    /\ mesh = EmptyMesh
    /\ texture_atlases = << >>

\* A fatal condition: main prints and calls std::exit(EXIT_FAILURE),
\* reconstructTexture returns the message.
Fail(msg) ==
    IF mode = "cli"
    THEN /\ cerr' = msg
         /\ exit_status' = "EXIT_FAILURE"
         /\ pc' = "exited"
         /\ ret' = ret
    ELSE /\ ret' = msg
         /\ pc' = "returned"
         /\ cerr' = cerr
         /\ exit_status' = exit_status

Going(next) ==
    /\ pc' = next
    /\ UNCHANGED <<cerr, exit_status, ret>>

\* main: conf = parse_args(argc, argv), which may throw invalid_argument.
ParseArgs ==
    /\ mode = "cli" /\ pc = "start"
    /\ \/ /\ \E c \in Arguments : conf' = c
          /\ Going("check_dir")
       \/ /\ conf' = conf
          /\ Fail(BadArguments)
    /\ UNCHANGED <<rvars, bvars, mode, num_faces, num_views, graph, labeling, i, trace, patch_input>>

\* (variant: the write flags are cleared but the file names are not empty)
LibConf_anyfile ==
    /\ mode = "lib" /\ pc = "start"
    /\ \E c \in Arguments :
         /\ ~c.write_intermediate_results /\ ~c.write_view_selection_model
         /\ conf' = c
    /\ Going("load_mesh")
    /\ UNCHANGED <<rvars, bvars, mode, num_faces, num_views, graph, labeling, i, trace, patch_input>>

\* reconstructTexture: Arguments conf with the write flags cleared; the file
\* names are default-constructed (empty) strings.
LibConf ==
    /\ mode = "lib" /\ pc = "start"
    /\ \E g \in BOOLEAN, l \in BOOLEAN :
         conf' = [labeling_file |-> FALSE, data_cost_file |-> FALSE,
                  write_intermediate_results |-> FALSE,
                  write_view_selection_model |-> FALSE,
                  global_seam_leveling |-> g, local_seam_leveling |-> l]
    /\ Going("load_mesh")
    /\ UNCHANGED <<rvars, bvars, mode, num_faces, num_views, graph, labeling, i, trace, patch_input>>

\* main: the destination directory must exist.
CheckDestDir ==
    /\ pc = "check_dir"
    /\ \E dir_exists \in BOOLEAN :
         IF dir_exists THEN Going("load_mesh") ELSE Fail(NoDestination)
    /\ UNCHANGED <<rvars, bvars, mode, conf, num_faces, num_views, graph, labeling, i, trace, patch_input>>

\* main: load_ply_mesh (may throw) and prepare_mesh;
\* reconstructTexture: the mesh is filled from the caller's buffers.
LoadMesh ==
    /\ pc = "load_mesh"
    /\ \/ /\ \E n \in 0..MaxFaces : num_faces' = n
          /\ Log("prepare_mesh")
          /\ Going("views")
       \/ /\ mode = "cli"
          /\ UNCHANGED <<num_faces, trace>>
          /\ Fail(NoMesh)
    /\ UNCHANGED <<rvars, bvars, mode, conf, num_views, graph, labeling, i, patch_input>>

\* generate_texture_views; main then writes the .conf file.
GenerateTextureViews ==
    /\ pc = "views"
    /\ \E k \in 0..MaxViews : num_views' = k
    /\ trace' = IF mode = "cli"
                THEN trace \o <<"generate_texture_views", "write_conf">>
                ELSE Append(trace, "generate_texture_views")
    /\ Going("graph")
    /\ UNCHANGED <<rvars, bvars, mode, conf, num_faces, graph, labeling, i, patch_input>>

\* tex::Graph graph(num_faces); build_adjacency_graph.
BuildGraph ==
    /\ pc = "graph"
    /\ graph' = NewGraph(num_faces)
    /\ Log("build_adjacency_graph")
    /\ Going(LabelingBranch)
    /\ UNCHANGED <<rvars, bvars, mode, conf, num_faces, num_views, labeling, i, patch_input>>

\* conf.labeling_file.empty(), conf.data_cost_file.empty(): compute the data
\* costs and, with write_intermediate_results, save them.
CalculateDataCosts ==
    /\ pc = "data_costs" /\ ~conf.data_cost_file
    /\ trace' = IF conf.write_intermediate_results
                THEN trace \o <<"calculate_data_costs", "save_data_costs">>
                ELSE Append(trace, "calculate_data_costs")
    /\ Going("view_selection")
    /\ UNCHANGED <<rvars, bvars, mode, conf, num_faces, num_views, graph, labeling, i, patch_input>>

\* conf.data_cost_file given: load it; a FileException is fatal.
LoadDataCosts ==
    /\ pc = "data_costs" /\ conf.data_cost_file
    /\ Log("load_data_costs")
    /\ \E ok \in BOOLEAN :
         IF ok THEN Going("view_selection") ELSE Fail(CostLoadFailed)
    /\ UNCHANGED <<rvars, bvars, mode, conf, num_faces, num_views, graph, labeling, i, patch_input>>

\* view_selection labels every node with 0 (none) or a view 1..K.
ViewSelection ==
    /\ pc = "view_selection"
    /\ \E g \in [1..num_faces -> 0..num_views] : graph' = g
    /\ Log("view_selection")
    /\ Going("write_labeling")
    /\ UNCHANGED <<rvars, bvars, mode, conf, num_faces, num_views, labeling, i, patch_input>>

\* Write labeling to file, with write_intermediate_results.
WriteLabeling ==
    /\ pc = "write_labeling"
    /\ trace' = IF conf.write_intermediate_results
                THEN Append(trace, "write_labeling") ELSE trace
    /\ Going("patches")
    /\ UNCHANGED <<rvars, bvars, mode, conf, num_faces, num_views, graph, labeling, i, patch_input>>

\* Load labeling from file; its size must be the number of graph nodes.
LoadLabeling ==
    /\ pc = "load_labeling"
    /\ \E n \in 0..MaxFaces : \E L \in [1..n -> 0..MaxLabel] :
         /\ labeling' = L
         /\ IF SizeMismatch(L) THEN Fail(WrongLabeling) ELSE Going("transfer")
    /\ i' = 0
    /\ Log("load_labeling")
    /\ UNCHANGED <<rvars, bvars, mode, conf, num_faces, num_views, graph, patch_input>>

\* (variant: the out-of-range branch reports the error and goes on)
TransferLabel_noexit ==
    /\ pc = "transfer" /\ i < Len(labeling)
    /\ LET label == labeling[i + 1] IN
         IF LabelOutOfRange(label)
         THEN /\ cerr' = WrongLabeling
              /\ i' = i + 1
              /\ UNCHANGED <<graph, pc, exit_status, ret>>
         ELSE /\ graph' = SetLabel(graph, i, label)
              /\ i' = i + 1
              /\ Going("transfer")
    /\ UNCHANGED <<rvars, bvars, mode, conf, num_faces, num_views, labeling, trace, patch_input>>

\* One iteration of the transfer loop: label > texture_views.size() is fatal,
\* otherwise graph.set_label(i, label).
TransferLabel ==
    /\ pc = "transfer" /\ i < Len(labeling)
    /\ LET label == labeling[i + 1] IN
         IF LabelOutOfRange(label)
         THEN /\ Fail(WrongLabeling)
              /\ UNCHANGED <<graph, i>>
         ELSE /\ graph' = SetLabel(graph, i, label)
              /\ i' = i + 1
              /\ Going("transfer")
    /\ UNCHANGED <<rvars, bvars, mode, conf, num_faces, num_views, labeling, trace, patch_input>>

\* The transfer loop ends.
TransferDone ==
    /\ pc = "transfer" /\ i >= Len(labeling)
    /\ Going("patches")
    /\ UNCHANGED <<rvars, bvars, mode, conf, num_faces, num_views, graph, labeling, i, trace, patch_input>>

\* generate_texture_patches reads the graph's labels.
GenerateTexturePatches ==
    /\ pc = "patches"
    /\ patch_input' = Append(patch_input, graph)
    /\ Log("generate_texture_patches")
    /\ Going("seams")
    /\ UNCHANGED <<rvars, bvars, mode, conf, num_faces, num_views, graph, labeling, i>>

\* conf.settings.global_seam_leveling
GlobalSeamLeveling ==
    /\ pc = "seams" /\ conf.global_seam_leveling
    /\ Log("global_seam_leveling")
    /\ Going("local_seams")
    /\ UNCHANGED <<rvars, bvars, mode, conf, num_faces, num_views, graph, labeling, i, patch_input>>

\* otherwise: the parallel loop calling adjust_colors on every patch
AdjustColorsPass ==
    /\ pc = "seams" /\ ~conf.global_seam_leveling
    /\ Log("adjust_colors_pass")
    /\ Going("local_seams")
    /\ UNCHANGED <<rvars, bvars, mode, conf, num_faces, num_views, graph, labeling, i, patch_input>>

\* (variant: local seam leveling runs after atlas generation)
LocalSeamLeveling_late ==
    /\ pc = "local_seams"
    /\ trace' = IF conf.local_seam_leveling
                THEN trace \o <<"generate_texture_atlases", "local_seam_leveling">>
                ELSE Append(trace, "generate_texture_atlases")
    /\ Going("model")
    /\ UNCHANGED <<rvars, bvars, mode, conf, num_faces, num_views, graph, labeling, i, patch_input>>

\* conf.settings.local_seam_leveling
LocalSeamLeveling ==
    /\ pc = "local_seams"
    /\ trace' = IF conf.local_seam_leveling
                THEN Append(trace, "local_seam_leveling") ELSE trace
    /\ Going("atlases")
    /\ UNCHANGED <<rvars, bvars, mode, conf, num_faces, num_views, graph, labeling, i, patch_input>>

GenerateTextureAtlases ==
    /\ pc = "atlases"
    /\ Log("generate_texture_atlases")
    /\ Going("model")
    /\ UNCHANGED <<rvars, bvars, mode, conf, num_faces, num_views, graph, labeling, i, patch_input>>

\* main: tex::build_model and Model::save(model, out_prefix);
\* reconstructTexture: ::build_model into the caller's buffers.
BuildAndSaveModel ==
    /\ pc = "model"
    /\ trace' = IF mode = "cli"
                THEN trace \o <<"build_model", "save_model">>
                ELSE Append(trace, "build_model")
    /\ Going("finish")
    /\ UNCHANGED <<rvars, bvars, mode, conf, num_faces, num_views, graph, labeling, i, patch_input>>

\* (variant: reconstructTexture returns a status text on success)
Finish_status ==
    /\ pc = "finish" /\ ~conf.write_view_selection_model
    /\ pc' = IF mode = "cli" THEN "exited" ELSE "returned"
    /\ exit_status' = IF mode = "cli" THEN "EXIT_SUCCESS" ELSE exit_status
    /\ ret' = IF mode = "cli" THEN ret ELSE "done."
    /\ UNCHANGED <<rvars, bvars, mode, conf, num_faces, num_views, graph, labeling, i, trace,
                   patch_input, cerr>>

\* Without write_view_selection_model the run ends here.
Finish ==
    /\ pc = "finish" /\ ~conf.write_view_selection_model
    /\ pc' = IF mode = "cli" THEN "exited" ELSE "returned"
    /\ exit_status' = IF mode = "cli" THEN "EXIT_SUCCESS" ELSE exit_status
    /\ ret' = IF mode = "cli" THEN ret ELSE ""
    /\ UNCHANGED <<rvars, bvars, mode, conf, num_faces, num_views, graph, labeling, i, trace,
                   patch_input, cerr>>

\* write_view_selection_model: texture_atlases.clear(), debug embeddings.
DebugEmbeddings ==
    /\ pc = "finish" /\ conf.write_view_selection_model
    /\ trace' = trace \o <<"clear_atlases", "generate_debug_embeddings">>
    /\ Going("debug_patches")
    /\ UNCHANGED <<rvars, bvars, mode, conf, num_faces, num_views, graph, labeling, i, patch_input>>

DebugPatches ==
    /\ pc = "debug_patches"
    /\ patch_input' = Append(patch_input, graph)
    /\ trace' = trace \o <<"generate_texture_patches", "generate_texture_atlases">>
    /\ Going("debug_model")
    /\ UNCHANGED <<rvars, bvars, mode, conf, num_faces, num_views, graph, labeling, i>>

\* (variant: the debug pass saves without building a model)
DebugModel_nobuild ==
    /\ pc = "debug_model"
    /\ trace' = Append(trace, "save_view_selection_model")
    /\ pc' = IF mode = "cli" THEN "exited" ELSE "returned"
    /\ exit_status' = IF mode = "cli" THEN "EXIT_SUCCESS" ELSE exit_status
    /\ ret' = IF mode = "cli" THEN ret ELSE ""
    /\ UNCHANGED <<rvars, bvars, mode, conf, num_faces, num_views, graph, labeling, i,
                   patch_input, cerr>>

\* (variant: the debug model is saved under out_prefix)
DebugModel_sameprefix ==
    /\ pc = "debug_model"
    /\ trace' = trace \o <<"build_model", "save_model">>
    /\ pc' = IF mode = "cli" THEN "exited" ELSE "returned"
    /\ exit_status' = IF mode = "cli" THEN "EXIT_SUCCESS" ELSE exit_status
    /\ ret' = IF mode = "cli" THEN ret ELSE ""
    /\ UNCHANGED <<rvars, bvars, mode, conf, num_faces, num_views, graph, labeling, i,
                   patch_input, cerr>>

\* tex::build_model and Model::save(model, out_prefix + "_view_selection").
DebugModel ==
    /\ pc = "debug_model"
    /\ trace' = trace \o <<"build_model", "save_view_selection_model">>
    /\ pc' = IF mode = "cli" THEN "exited" ELSE "returned"
    /\ exit_status' = IF mode = "cli" THEN "EXIT_SUCCESS" ELSE exit_status
    /\ ret' = IF mode = "cli" THEN ret ELSE ""
    /\ UNCHANGED <<rvars, bvars, mode, conf, num_faces, num_views, graph, labeling, i,
                   patch_input, cerr>>

Next ==
    \/ ParseArgs \/ LibConf \/ CheckDestDir \/ LoadMesh \/ GenerateTextureViews
    \/ BuildGraph \/ CalculateDataCosts \/ LoadDataCosts \/ ViewSelection
    \/ WriteLabeling \/ LoadLabeling \/ TransferLabel \/ TransferDone
    \/ GenerateTexturePatches \/ GlobalSeamLeveling \/ AdjustColorsPass
    \/ LocalSeamLeveling \/ GenerateTextureAtlases \/ BuildAndSaveModel
    \/ Finish \/ DebugEmbeddings \/ DebugPatches \/ DebugModel

Spec == Init /\ [][Next]_vars

\* ------------------------------------------- the in-memory consolidation
\* build_model copies vectors and texcoords and never inspects them: every
\* vertex and texcoord is a token naming where it came from.
Position(k) == <<"position", k>>
Normal(k) == <<"normal", k>>
TexCoord(a, k) == <<"uv", a, k>>
StaleTexCoord == <<"uv", "stale">>

\* The meshes handed to reconstructTexture: triangle strips.
StripFace(f, n) == <<f % n, (f + 1) % n, (f + 2) % n>>

\* std::vector<glm::ivec3> seen as the unsigned ints memcpy moves
Flatten(tris) ==
    [k \in 1..(3 * Len(tris)) |-> tris[((k - 1) \div 3) + 1][((k - 1) % 3) + 1]]

RECURSIVE SortedSeq(_)
SortedSeq(S) ==
    IF S = {} THEN << >>
    ELSE LET m == CHOOSE x \in S : \A y \in S : x <= y
         IN <<m>> \o SortedSeq(S \ {m})

Range(f) == {f[k] : k \in DOMAIN f}

\* The RGB image of atlas a: a square, three bytes per pixel.
AtlasImage(a, side) ==
    [width |-> side, height |-> side,
     data |-> [k \in 1..(side * side * 3) |-> (a * 16 + k) % 256]]

\* A TextureAtlas: its image, the mesh faces it holds, its texcoords and,
\* per face corner, the index of the corner's texcoord.
MakeAtlas(a, X, ntc, ids) ==
    [image |-> AtlasImage(a, Cardinality(X)),
     faces |-> SortedSeq(X),
     texcoords |-> [k \in 1..ntc |-> TexCoord(a, k - 1)],
     texcoord_ids |-> ids]

NonEmptySubsets(S) == (SUBSET S) \ {{}}

Max(S) == CHOOSE x \in S : \A y \in S : y <= x

\* The number of texcoord indices a corner-index array uses when it numbers
\* them in the order of their first use.
Used(ids) == IF ids = << >> THEN 0 ELSE 1 + Max(Range(ids))

\* The corner-index arrays of n corners over at most cap texcoords.
\* build_model commutes with a renumbering of the atlas's texcoords, so the
\* arrays are taken in one numbering: a texcoord's index is the number of
\* texcoords used before its first use (0, then 0..1, then 0..2, ...). Two
\* corners may share an index whatever their vertices are.
RECURSIVE CornerIds(_, _)
CornerIds(n, cap) ==
    IF n = 0 THEN {<< >>}
    ELSE UNION { { Append(ids, v) :
                     v \in 0..(IF Used(ids) < cap THEN Used(ids) ELSE cap - 1) } :
                 ids \in CornerIds(n - 1, cap) }

\* A later atlas holds faces no earlier atlas holds, one texcoord per corner.
LaterAtlas(a, X) ==
    MakeAtlas(a, X, 3 * Cardinality(X), [k \in 1..(3 * Cardinality(X)) |-> k - 1])

RECURSIVE LaterAtlases(_, _, _)
LaterAtlases(a, remaining, room) ==
    {<< >>} \cup
    (IF room = 0 THEN {}
     ELSE UNION { { <<LaterAtlas(a, X)>> \o r :
                      r \in LaterAtlases(a + 1, remaining \ X, room - 1) } :
                  X \in NonEmptySubsets(remaining) })

\* reconstructTexture is entered with the caller's mesh in points, normals
\* and triangles; texCoords and the texture are empty or hold stale data.
InitBuild ==
    /\ mode = "lib"
    /\ pc = "rt_entry"
    /\ InitPipeline
    /\ InitPatches
    /\ \E stale \in BOOLEAN :
         /\ texCoords = IF stale THEN <<StaleTexCoord>> ELSE << >>
         /\ textureWidth = IF stale THEN 1 ELSE 0
         /\ textureHeight = IF stale THEN 1 ELSE 0
         /\ textureData = IF stale THEN <<255, 255, 255>> ELSE << >>
         /\ \E nv \in 0..MaxVerts, nt \in 0..MaxTris :
              /\ nt > 0 => nv >= 3
              /\ points = [k \in 1..nv |-> Position(k - 1)]
              /\ normals = [k \in 1..nv |-> Normal(k - 1)]
              /\ triangles = [f \in 1..nt |-> StripFace(f - 1, nv)]
    /\ mesh = EmptyMesh
    /\ texture_atlases = << >>

\* The mesh is created and filled from the caller's buffers.
PrepareMesh ==
    /\ pc = "rt_entry"
    /\ mesh' = [vertices |-> points, normals |-> normals, faces |-> Flatten(triangles)]
    /\ pc' = "rt_pipeline"
    /\ UNCHANGED <<rvars, mode, pvars, ret, points, normals, texCoords, triangles,
                   textureWidth, textureHeight, textureData, texture_atlases>>

\* The stages up to generate_texture_atlases leave the atlases: none, or
\* atlas 0 with some faces of the mesh, every corner index within its
\* texcoords (which may include texcoords no corner uses), and later atlases.
AtlasesGenerated ==
    /\ pc = "rt_pipeline"
    /\ LET F == Len(mesh.faces) \div 3 IN
       \/ texture_atlases' = << >>
       \/ \E X \in NonEmptySubsets(0..(F - 1)) :
          \E ids \in CornerIds(3 * Cardinality(X), MaxTexCoords) :
          \E ntc \in Used(ids)..MaxTexCoords :
          \E later \in LaterAtlases(1, (0..(F - 1)) \ X, MaxAtlases - 1) :
             texture_atlases' = <<MakeAtlas(0, X, ntc, ids)>> \o later
    /\ pc' = "rt_model"
    /\ UNCHANGED <<rvars, mode, pvars, ret, points, normals, texCoords, triangles,
                   textureWidth, textureHeight, textureData, mesh>>

\* for i, for j: texCoordVertexIndices[triangles[i][j]] = vertexIndices[i][j],
\* corner c = 3 * i + j
RECURSIVE AssignVertices(_, _, _, _)
AssignVertices(map, tris, vertexIndices, c) ==
    IF c >= 3 * Len(tris) THEN map
    ELSE LET ci == (c \div 3) + 1
             cj == (c % 3) + 1
         IN AssignVertices([map EXCEPT ![tris[ci][cj] + 1] = vertexIndices[ci][cj]],
                           tris, vertexIndices, c + 1)

\* texture_atlases.front()
SelectedAtlas_back(atlases) == atlases[Len(atlases)]
SelectedAtlas(atlases) == Head(atlases)

\* mesh_faces.data() + atlas_faces[i] * 3: where face i of the atlas starts
\* in the mesh's index buffer (f counts the atlas faces from 1)
FaceOffset_position(atlas_faces, f) == (f - 1) * 3
FaceOffset(atlas_faces, f) == atlas_faces[f] * 3

\* points.resize(texCoords.size()), normals.resize(texCoords.size())
OutputVertexCount_short(tc) == Len(tc) - 1
OutputVertexCount(tc) == Len(tc)

\* ::build_model: the buffers it leaves, given the buffers out it was handed.
build_model(m, atlases, out) ==
    IF atlases = << >> THEN out
    ELSE
    LET texture_atlas == SelectedAtlas(atlases)
        image == texture_atlas.image
        w == image.width
        h == image.height
        atlas_faces == texture_atlas.faces
        atlas_texcoords == texture_atlas.texcoords
        atlas_texcoord_ids == texture_atlas.texcoord_ids
        tc == atlas_texcoords
        vertexIndices ==
            [f \in 1..Len(atlas_faces) |->
                [j \in 1..3 |-> m.faces[FaceOffset(atlas_faces, f) + j]]]
        tris ==
            [f \in 1..Len(atlas_faces) |->
                [j \in 1..3 |-> atlas_texcoord_ids[(f - 1) * 3 + j]]]
        texCoordVertexIndices ==
            AssignVertices([k \in 1..Len(tc) |-> 0], tris, vertexIndices, 0)
    IN [points |-> [k \in 1..OutputVertexCount(tc) |->
                       m.vertices[texCoordVertexIndices[k] + 1]],
        normals |-> [k \in 1..OutputVertexCount(tc) |->
                       m.normals[texCoordVertexIndices[k] + 1]],
        texCoords |-> tc,
        triangles |-> tris,
        textureWidth |-> w,
        textureHeight |-> h,
        textureData |-> [k \in 1..(w * h * 3) |-> image.data[k]]]

\* ::build_model(mesh, texture_atlases, points, normals, texCoords, ...)
CallBuildModel ==
    /\ pc = "rt_model"
    /\ LET out == build_model(mesh, texture_atlases,
                      [points |-> points, normals |-> normals,
                       texCoords |-> texCoords, triangles |-> triangles,
                       textureWidth |-> textureWidth,
                       textureHeight |-> textureHeight,
                       textureData |-> textureData])
       IN /\ points' = out.points
          /\ normals' = out.normals
          /\ texCoords' = out.texCoords
          /\ triangles' = out.triangles
          /\ textureWidth' = out.textureWidth
          /\ textureHeight' = out.textureHeight
          /\ textureData' = out.textureData
    /\ pc' = "rt_built"
    /\ UNCHANGED <<rvars, mode, pvars, ret, mesh, texture_atlases>>

\* return "";
ReturnBuffers ==
    /\ pc = "rt_built"
    /\ ret' = ""
    /\ pc' = "rt_returned"
    /\ UNCHANGED <<rvars, mode, pvars, bvars>>

NextBuild == PrepareMesh \/ AtlasesGenerated \/ CallBuildModel \/ ReturnBuffers

\* reconstructTexture seen from its buffers: entry, atlases, build_model.
SpecBuild == InitBuild /\ [][NextBuild]_vars

\* ------------------------------------------------- the parallel patch loop
\* The seam stage of main (lines 151-176) and of reconstructTexture (lines
\* 399-425) with the loop "#pragma omp parallel for schedule(dynamic)" run by
\* a team of threads.  A texture patch is its face count, the adjust vectors
\* that this file's calls of adjust_colors handed it, and whether its
\* validity mask has been computed.

\* math::Vec3f(0.0f)
ZeroVec3f == <<0, 0, 0>>

\* A patch as generate_texture_patches leaves it.
NewPatch(nfaces) ==
    [faces |-> nfaces, adjust_values |-> << >>, validity_mask |-> FALSE]

\* std::vector<math::Vec3f> patch_adjust_values(get_faces().size() * 3, 0.0f)
AdjustValues_perface(patch) == [k \in 1..patch.faces |-> ZeroVec3f]
AdjustValues(patch) == [k \in 1..(patch.faces * 3) |-> ZeroVec3f]

\* TexturePatch::adjust_colors(values): applies the values to the patch and
\* computes its validity mask.
adjust_colors(patch, values) ==
    [patch EXCEPT !.adjust_values = Append(@, values), !.validity_mask = TRUE]

\* ProgressCounter::inc(): one atomic increment of count.
inc(count) == count + 1

\* A thread of the team between iterations.
IdleThread == [pc |-> "idle", i |-> 0, patch_adjust_values |-> << >>]

\* The loop variable i of the thread: private to it.
LoopIndex_shared(t) == next_iteration - 1
LoopIndex(t) == threads[t].i

\* The faces of the mesh that the patches hold.
RECURSIVE TotalFaces(_)
TotalFaces(patches) ==
    IF patches = << >> THEN 0
    ELSE Head(patches).faces + TotalFaces(Tail(patches))

\* The state after generate_texture_patches, for any settings and patches.
InitPar ==
    /\ mode \in {"cli", "lib"}
    /\ pc = "seams"
    /\ \E g, l \in BOOLEAN :
         conf = [DefaultArguments EXCEPT !.global_seam_leveling = g,
                                         !.local_seam_leveling = l]
    /\ \E n \in 0..MaxPatches : \E fc \in [1..n -> 1..MaxPatchFaces] :
         /\ texture_patches = [k \in 1..n |-> NewPatch(fc[k])]
         /\ num_faces = TotalFaces([k \in 1..n |-> NewPatch(fc[k])])
    /\ num_views = 1
    /\ graph = [k \in 1..num_faces |-> 1]
    /\ labeling = << >>
    /\ i = 0
    /\ trace = <<"generate_texture_patches">>
    /\ patch_input = <<graph>>
    /\ cerr = ""
    /\ exit_status = "none"
    /\ ret = NoReturn
    /\ points = << >> /\ normals = << >> /\ texCoords = << >> /\ triangles = << >>
    /\ textureWidth = 0 /\ textureHeight = 0 /\ textureData = << >>
    /\ mesh = EmptyMesh
    /\ texture_atlases = << >>
    /\ texture_patch_counter = 0
    /\ next_iteration = 0
    /\ threads = << >>

\* else-branch: ProgressCounter texture_patch_counter(..., size) and the
\* start of the parallel region with a team of some size.
\* (variant: the loop runs whatever the setting)
EnterParallel_always ==
    /\ pc = "seams"
    /\ texture_patch_counter' = 0
    /\ next_iteration' = 0
    /\ \E n \in 1..MaxThreads : threads' = [t \in 1..n |-> IdleThread]
    /\ pc' = "parallel"
    /\ UNCHANGED <<bvars, mode, pvars, ret, texture_patches>>

EnterParallel ==
    /\ pc = "seams" /\ ~conf.global_seam_leveling
    /\ texture_patch_counter' = 0
    /\ next_iteration' = 0
    /\ \E n \in 1..MaxThreads : threads' = [t \in 1..n |-> IdleThread]
    /\ pc' = "parallel"
    /\ UNCHANGED <<bvars, mode, pvars, ret, texture_patches>>

\* schedule(dynamic): an idle thread is handed the next iteration.
\* (variant: the thread is handed the iteration before the next one)
ClaimIteration_stale(t) ==
    /\ pc = "parallel" /\ t \in DOMAIN threads /\ threads[t].pc = "idle"
    /\ next_iteration < Len(texture_patches)
    /\ threads' = [threads EXCEPT ![t] =
                      [pc |-> "body",
                       i |-> IF next_iteration = 0 THEN 0 ELSE next_iteration - 1,
                       patch_adjust_values |-> << >>]]
    /\ next_iteration' = next_iteration + 1
    /\ UNCHANGED <<bvars, mode, pvars, ret, pc, texture_patches, texture_patch_counter>>

ClaimIteration(t) ==
    /\ pc = "parallel" /\ t \in DOMAIN threads /\ threads[t].pc = "idle"
    /\ next_iteration < Len(texture_patches)
    /\ threads' = [threads EXCEPT ![t] =
                      [pc |-> "body", i |-> next_iteration,
                       patch_adjust_values |-> << >>]]
    /\ next_iteration' = next_iteration + 1
    /\ UNCHANGED <<bvars, mode, pvars, ret, pc, texture_patches, texture_patch_counter>>

\* texture_patch_counter.progress<SIMPLE>() (prints, changes nothing);
\* texture_patch = texture_patches[i]; patch_adjust_values(size * 3, 0)
PrepareValues(t) ==
    /\ pc = "parallel" /\ t \in DOMAIN threads /\ threads[t].pc = "body"
    /\ threads' = [threads EXCEPT ![t].pc = "adjust",
                      ![t].patch_adjust_values =
                          AdjustValues(texture_patches[LoopIndex(t) + 1])]
    /\ UNCHANGED <<bvars, mode, pvars, ret, pc, texture_patches,
                   texture_patch_counter, next_iteration>>

\* texture_patch->adjust_colors(patch_adjust_values)
AdjustColors(t) ==
    /\ pc = "parallel" /\ t \in DOMAIN threads /\ threads[t].pc = "adjust"
    /\ texture_patches' =
          [texture_patches EXCEPT ![LoopIndex(t) + 1] =
              adjust_colors(@, threads[t].patch_adjust_values)]
    /\ threads' = [threads EXCEPT ![t].pc = "inc"]
    /\ UNCHANGED <<bvars, mode, pvars, ret, pc, texture_patch_counter, next_iteration>>

\* texture_patch_counter.inc(), the end of the iteration
\* (variant: the iteration ends without the call)
CounterInc_skip(t) ==
    /\ pc = "parallel" /\ t \in DOMAIN threads /\ threads[t].pc = "inc"
    /\ threads' = [threads EXCEPT ![t] = IdleThread]
    /\ UNCHANGED <<bvars, mode, pvars, ret, pc, texture_patches,
                   texture_patch_counter, next_iteration>>

CounterInc(t) ==
    /\ pc = "parallel" /\ t \in DOMAIN threads /\ threads[t].pc = "inc"
    /\ texture_patch_counter' = inc(texture_patch_counter)
    /\ threads' = [threads EXCEPT ![t] = IdleThread]
    /\ UNCHANGED <<bvars, mode, pvars, ret, pc, texture_patches, next_iteration>>

\* No iteration is left: the thread waits at the barrier ending the loop.
ReachBarrier(t) ==
    /\ pc = "parallel" /\ t \in DOMAIN threads /\ threads[t].pc = "idle"
    /\ next_iteration >= Len(texture_patches)
    /\ threads' = [threads EXCEPT ![t].pc = "done"]
    /\ UNCHANGED <<bvars, mode, pvars, ret, pc, texture_patches,
                   texture_patch_counter, next_iteration>>

\* The implicit barrier of the parallel for: the control thread goes on
\* once every thread of the team has reached it.
LeaveParallel ==
    /\ pc = "parallel"
    /\ \A t \in DOMAIN threads : threads[t].pc = "done"
    /\ Log("adjust_colors_pass")
    /\ Going("local_seams")
    /\ UNCHANGED <<bvars, mode, conf, num_faces, num_views, graph, labeling, i,
                   patch_input, rvars>>

NextPar ==
    \/ GlobalSeamLeveling
    \/ EnterParallel
    \/ \E t \in 1..MaxThreads : ClaimIteration(t)
    \/ \E t \in 1..MaxThreads : PrepareValues(t)
    \/ \E t \in 1..MaxThreads : AdjustColors(t)
    \/ \E t \in 1..MaxThreads : CounterInc(t)
    \/ \E t \in 1..MaxThreads : ReachBarrier(t)
    \/ LeaveParallel
    \/ LocalSeamLeveling

SpecPar == InitPar /\ [][NextPar]_vars

\* ------------------------------------------------------ reading the history
Has(e) == \E k \in DOMAIN trace : trace[k] = e
Count(e) == Cardinality({k \in DOMAIN trace : trace[k] = e})
First(e) == CHOOSE k \in DOMAIN trace : trace[k] = e /\ \A j \in 1..(k - 1) : trace[j] # e

Terminated == pc \in {"exited", "returned"}

\* The labeling file has been read and the transfer loop is over.
LabelingConcluded == Has("load_labeling") /\ pc # "transfer"
\* The labeling-mismatch outcome.
LabelingRejected ==
    \/ cerr = WrongLabeling /\ exit_status = "EXIT_FAILURE"
    \/ ret = WrongLabeling
LabelingAccepted == LabelingConcluded /\ ~LabelingRejected
ValidLabeling ==
    /\ Len(labeling) = Len(graph)
    /\ \A k \in DOMAIN labeling : labeling[k] <= num_views

\* C1: on the labeling-override path validation succeeds iff the vector has
\* num_nodes entries and every entry is <= K (so K passes, K + 1 does not).
C1_ValidationIff == LabelingConcluded => (~LabelingRejected <=> ValidLabeling)

C1_Witness ==
    /\ LabelingAccepted
    /\ num_views >= 1
    /\ \E k \in DOMAIN labeling : labeling[k] = num_views

\* C2: on every labeling validation failure no node's label differs from its
\* value before validation started (every label still 0).
C2_NoMutationOnFailure == LabelingRejected => graph = NewGraph(Len(graph))

\* C3: a vector whose length is not num_nodes is rejected as a labeling
\* mismatch, the run ends, and every node still carries label 0: no set_label
\* ran before the length check.
C3_WrongLengthRejected ==
    (Has("load_labeling") /\ Len(labeling) # Len(graph)) =>
        /\ LabelingRejected
        /\ Terminated
        /\ i = 0
        /\ graph = NewGraph(num_faces)

C3_Witness ==
    /\ Has("load_labeling") /\ Len(labeling) # Len(graph)
    /\ num_faces > 0
    /\ \E k \in DOMAIN labeling : labeling[k] > 0 /\ labeling[k] <= num_views

\* C4: after a successful validation node i carries L[i] for every i, and
\* these are the labels every generate_texture_patches call reads.
C4_LabelsCopied ==
    LabelingAccepted =>
        /\ graph = labeling
        /\ \A k \in DOMAIN patch_input : patch_input[k] = labeling

C4_Witness ==
    /\ LabelingAccepted
    /\ Len(patch_input) >= 1
    /\ Len(labeling) >= 2
    /\ labeling[1] # labeling[2]

\* C5: the two view-selection paths exclude each other. With a labeling file
\* no data costs are computed or loaded, view_selection never runs and neither
\* intermediate file is written; without one the labeling file is never read
\* and, when patch generation starts, data costs were computed or loaded once
\* and view_selection ran exactly once after that.
C5_PathsExclusive ==
    /\ (pc # "start" /\ conf.labeling_file) =>
          /\ ~Has("calculate_data_costs") /\ ~Has("load_data_costs")
          /\ ~Has("view_selection")
          /\ ~Has("write_labeling") /\ ~Has("save_data_costs")
    /\ (pc # "start" /\ ~conf.labeling_file) =>
          /\ ~Has("load_labeling")
          /\ Count("view_selection") <= 1
          /\ Has("generate_texture_patches") =>
                /\ Count("view_selection") = 1
                /\ Count("calculate_data_costs") + Count("load_data_costs") = 1
                /\ Has("calculate_data_costs") <=> ~conf.data_cost_file
                /\ First("view_selection") < First("generate_texture_patches")
                /\ \E c \in {"calculate_data_costs", "load_data_costs"} :
                      Has(c) /\ First(c) < First("view_selection")

C5_Witness ==
    /\ conf.labeling_file /\ conf.write_intermediate_results /\ conf.data_cost_file
    /\ Has("generate_texture_patches")
    /\ exit_status = "EXIT_SUCCESS"

\* The stages that follow label resolution.
StageNames ==
    {"generate_texture_patches", "global_seam_leveling", "adjust_colors_pass",
     "local_seam_leveling", "generate_texture_atlases", "build_model",
     "save_model", "save_view_selection_model"}
IsStage(e) == e \in StageNames
Stages == SelectSeq(trace, IsStage)
ExpectedStages ==
    <<"generate_texture_patches",
      IF conf.global_seam_leveling THEN "global_seam_leveling" ELSE "adjust_colors_pass">>
    \o (IF conf.local_seam_leveling THEN <<"local_seam_leveling">> ELSE << >>)
    \o <<"generate_texture_atlases", "build_model">>
    \o (IF mode = "cli" THEN <<"save_model">> ELSE << >>)
LabelingResolved == Has("view_selection") \/ LabelingAccepted
Min(a, b) == IF a < b THEN a ELSE b

\* C6: once labeling is resolved the stages run in this order, none skipped:
\* patch generation, global seam leveling or the per-patch pass, local seam
\* leveling if enabled, atlas generation, build_model, result delivery.
C6_StageOrder ==
    LET n == Min(Len(Stages), Len(ExpectedStages)) IN
    /\ SubSeq(Stages, 1, n) = SubSeq(ExpectedStages, 1, n)
    /\ Stages # << >> => LabelingResolved
    /\ (LabelingResolved /\ Terminated) =>
          /\ Len(Stages) >= Len(ExpectedStages)
          /\ IF mode = "cli" THEN exit_status = "EXIT_SUCCESS" ELSE ret = ""

C6_Witness ==
    /\ Terminated /\ LabelingResolved
    /\ conf.local_seam_leveling /\ ~conf.global_seam_leveling
    /\ Len(Stages) = Len(ExpectedStages)

\* C7: in CLI mode a failed precondition (destination directory, mesh load,
\* data-cost file load, labeling validation) ends the run with a nonzero exit
\* status and no later stage runs: no patch or atlas generation, no
\* build_model, no Model::save.
C7_CliFailureStops ==
    mode = "cli" =>
        /\ cerr # "" =>
              /\ exit_status = "EXIT_FAILURE" /\ pc = "exited"
              /\ Stages = << >>
        /\ exit_status = "EXIT_FAILURE" =>
              cerr \in {BadArguments, NoDestination, NoMesh, CostLoadFailed, WrongLabeling}
        /\ (cerr = CostLoadFailed) => ~Has("view_selection")

C7_Witness ==
    /\ mode = "cli" /\ cerr = WrongLabeling /\ exit_status = "EXIT_FAILURE"
    /\ i > 0

\* C8: reconstructTexture never ends the process; the string it returns is
\* empty iff build_model ran, and a non-empty (error) string is returned
\* before build_model touches the caller's buffers.
C8_LibReturn ==
    mode = "lib" =>
        /\ exit_status = "none" /\ cerr = ""
        /\ pc # "returned" => ret = NoReturn
        /\ pc = "returned" =>
              /\ ret # NoReturn
              /\ (ret = "") <=> Has("build_model")

C8_Witness == mode = "lib" /\ pc = "returned" /\ ret = "" /\ Has("build_model")

\* build_model has returned.
Built == pc \in {"rt_built", "rt_returned"}

\* C9: with an empty atlas set the model handed back to the caller has no
\* vertices (points, normals, texCoords empty) and no triangles.
C9_EmptyAtlasEmptyModel ==
    (Built /\ texture_atlases = << >>) =>
        /\ points = << >> /\ normals = << >> /\ texCoords = << >>
        /\ triangles = << >>

\* C10: after build_model, whatever the buffers held and for any atlas set,
\* points, normals and texCoords have the length of the first atlas's
\* texcoord array (0 when there is no atlas).
C10_VertexCount ==
    Built =>
        LET n == IF texture_atlases = << >> THEN 0
                 ELSE Len(Head(texture_atlases).texcoords)
        IN Len(points) = n /\ Len(normals) = n /\ Len(texCoords) = n

\* C11: after build_model every index of every triangle in the triangle
\* buffer is within [0, len(points)), the empty-atlas case included.
C11_TriangleIndexBound ==
    Built =>
        \A t \in DOMAIN triangles : \A j \in 1..3 :
            triangles[t][j] >= 0 /\ triangles[t][j] < Len(points)

C11_Witness ==
    /\ Built /\ texture_atlases # << >>
    /\ Len(triangles) >= 2
    /\ \E t \in DOMAIN triangles : \E j \in 1..3 : triangles[t][j] = Len(points) - 1

\* The mesh vertex under corner j of face f of the first atlas.
CornerVertex(f, j) ==
    mesh.faces[Head(texture_atlases).faces[f] * 3 + j]

\* The texcoord index of corner j of face f of the first atlas.
CornerId(f, j) ==
    Head(texture_atlases).texcoord_ids[(f - 1) * 3 + j]

\* Every texcoord index of the first atlas is paired with one mesh vertex.
SinglePairing ==
    \A f, g \in DOMAIN Head(texture_atlases).faces : \A j, k \in 1..3 :
        CornerId(f, j) = CornerId(g, k) => CornerVertex(f, j) = CornerVertex(g, k)

\* C12: for a non-empty atlas set there is one triangle per face of the
\* first atlas, triangles[i][j] is the atlas's texcoord index at 3*i+j, and,
\* when every texcoord index is paired with a single mesh vertex,
\* points/normals at that index are the position/normal of the face's vertex.
C12_FaithfulFaces ==
    (Built /\ texture_atlases # << >>) =>
        /\ Len(triangles) = Len(Head(texture_atlases).faces)
        /\ \A f \in DOMAIN triangles : \A j \in 1..3 :
            /\ triangles[f][j] = CornerId(f, j)
            /\ SinglePairing =>
                /\ points[triangles[f][j] + 1] = mesh.vertices[CornerVertex(f, j) + 1]
                /\ normals[triangles[f][j] + 1] = mesh.normals[CornerVertex(f, j) + 1]

\* Two faces of the first atlas share a mesh vertex under different texcoords.
C12_Witness ==
    /\ Built /\ texture_atlases # << >> /\ SinglePairing
    /\ \E f, g \in DOMAIN triangles : \E j, k \in 1..3 :
        /\ f # g
        /\ CornerVertex(f, j) = CornerVertex(g, k)
        /\ triangles[f][j] # triangles[g][k]

\* The output buffers as one record, before (Buffers) and after (Buffers')
\* a step.
Buffers ==
    [points |-> points, normals |-> normals, texCoords |-> texCoords,
     triangles |-> triangles, textureWidth |-> textureWidth,
     textureHeight |-> textureHeight, textureData |-> textureData]

BuffersAfter ==
    [points |-> points', normals |-> normals', texCoords |-> texCoords',
     triangles |-> triangles', textureWidth |-> textureWidth',
     textureHeight |-> textureHeight', textureData |-> textureData']

\* C13: only atlas 0 contributes. A call of build_model with a non-empty
\* atlas set leaves exactly the buffers that the call with the first atlas
\* alone leaves, and one triangle per face of the first atlas.
C13_OnlyFirstAtlas ==
    [][(pc = "rt_model" /\ pc' = "rt_built" /\ texture_atlases # << >>) =>
          /\ BuffersAfter = build_model(mesh, <<Head(texture_atlases)>>, Buffers)
          /\ Len(triangles') = Len(Head(texture_atlases).faces)]_vars

\* A call with two atlases whose later atlas holds a face the first lacks.
C13_Witness ==
    /\ Built /\ Len(texture_atlases) >= 2
    /\ \E f \in Range(texture_atlases[2].faces) :
        f \notin Range(Head(texture_atlases).faces)
    /\ Len(triangles) = Len(Head(texture_atlases).faces)

\* Output buffers a caller passes in fresh.
FreshBuffers ==
    [points |-> << >>, normals |-> << >>, texCoords |-> << >>,
     triangles |-> << >>, textureWidth |-> 0, textureHeight |-> 0,
     textureData |-> << >>]

\* C14: consolidation is deterministic in the mesh and the atlas set alone:
\* a call leaves the buffers that the call with the same mesh and atlas set
\* on fresh buffers leaves, whatever the buffers held before.
C14_PriorIndependent ==
    [][(pc = "rt_model" /\ pc' = "rt_built") =>
          BuffersAfter = build_model(mesh, texture_atlases, FreshBuffers)]_vars

\* The part of C14 that the code keeps: with a non-empty atlas set the
\* prior contents do not show, unreferenced texcoord indices included.
C14_PriorIndependentNonEmpty ==
    [][(pc = "rt_model" /\ pc' = "rt_built" /\ texture_atlases # << >>) =>
          BuffersAfter = build_model(mesh, texture_atlases, FreshBuffers)]_vars

\* The loop of lines 157-168 run by one thread, iteration k onwards.
RECURSIVE SequentialPass(_, _)
SequentialPass(patches, k) ==
    IF k > Len(patches) THEN patches
    ELSE SequentialPass(
            [patches EXCEPT ![k] = adjust_colors(@, AdjustValues(@))], k + 1)

\* The patches as they were before any adjust_colors call of the loop.
Untouched(patches) == [k \in DOMAIN patches |-> NewPatch(patches[k].faces)]

\* The parallel region has been left.
RegionDone == Has("adjust_colors_pass")

\* C15: whatever the team size and the interleaving of its threads, the
\* patches after the parallel loop are those the sequential loop leaves.
C15_ScheduleIndependent ==
    RegionDone =>
        texture_patches = SequentialPass(Untouched(texture_patches), 1)

\* The loop was run by a team of two threads over at least two patches.
C15_Witness ==
    /\ RegionDone
    /\ Len(threads) >= 2
    /\ Len(texture_patches) >= 2
    /\ \E k \in DOMAIN texture_patches : texture_patches[k].faces >= 2

\* The run went through to its end: main returns EXIT_SUCCESS,
\* reconstructTexture returns "".
Completed ==
    \/ mode = "cli" /\ pc = "exited" /\ exit_status = "EXIT_SUCCESS"
    \/ mode = "lib" /\ pc = "returned" /\ ret = ""

\* Label resolution: view selection or the transfer of a labeling file.
LabelResolutions == Count("view_selection") + Count("load_labeling")

\* C16 as stated: in a completed run every stage (graph build, label
\* resolution, patch generation, atlas generation, consolidation, result
\* delivery) has run exactly once, write_view_selection_model included.
C16_ExactlyOnce ==
    Completed =>
        /\ Count("build_adjacency_graph") = 1
        /\ LabelResolutions = 1
        /\ Count("generate_texture_patches") = 1
        /\ Count("generate_texture_atlases") = 1
        /\ Count("build_model") = 1
        /\ mode = "cli" =>
              Count("save_model") + Count("save_view_selection_model") = 1

\* Passes over the patches: the primary one and, with
\* write_view_selection_model, the debug one.
Passes == IF conf.write_view_selection_model THEN 2 ELSE 1

\* C16 amended: graph build and label resolution run exactly once; patch
\* generation, atlas generation and consolidation run once per pass, that
\* is twice with write_view_selection_model; each pass delivers its one
\* result.
C16_OncePerPass ==
    Completed =>
        /\ Count("build_adjacency_graph") = 1
        /\ LabelResolutions = 1
        /\ Count("generate_texture_patches") = Passes
        /\ Count("generate_texture_atlases") = Passes
        /\ Count("build_model") = Passes
        /\ mode = "cli" =>
              /\ Count("save_model") = 1
              /\ Count("save_view_selection_model") = Passes - 1
        /\ mode = "lib" => Passes = 1

C16_Witness ==
    /\ Completed /\ conf.write_view_selection_model
    /\ Count("build_model") = 2

\* The seam stage is over.
SeamsDone == pc \in {"local_seams", "atlases"}

\* Every patch got one call of adjust_colors from the loop, with a zero
\* vector of three entries per face of the patch.
ZeroAdjusted(patch) ==
    /\ Len(patch.adjust_values) = 1
    /\ Len(patch.adjust_values[1]) = 3 * patch.faces
    /\ \A k \in DOMAIN patch.adjust_values[1] : patch.adjust_values[1][k] = ZeroVec3f

\* C17: exactly one of global seam leveling and the per-patch loop runs:
\* global seam leveling iff settings.global_seam_leveling, otherwise the loop
\* handing each patch a zero vector of length 3 x its face count; local seam
\* leveling runs or not by its own setting alone.
C17_SeamXor ==
    /\ SeamsDone =>
          /\ Count("global_seam_leveling") + Count("adjust_colors_pass") = 1
          /\ Has("global_seam_leveling") <=> conf.global_seam_leveling
          /\ \A k \in DOMAIN texture_patches :
                IF conf.global_seam_leveling
                THEN texture_patches[k].adjust_values = << >>
                ELSE ZeroAdjusted(texture_patches[k])
    /\ ~SeamsDone => ~Has("global_seam_leveling") /\ ~Has("adjust_colors_pass")
    /\ pc = "atlases" =>
          Count("local_seam_leveling") = (IF conf.local_seam_leveling THEN 1 ELSE 0)
    /\ pc # "atlases" => ~Has("local_seam_leveling")

\* The loop ran over a patch of two faces and local seam leveling followed.
C17_Witness ==
    /\ pc = "atlases" /\ ~conf.global_seam_leveling /\ conf.local_seam_leveling
    /\ Has("local_seam_leveling")
    /\ \E k \in DOMAIN texture_patches :
          texture_patches[k].faces = 2 /\ ZeroAdjusted(texture_patches[k])

\* The threads that are inside iteration k of the loop.
Holders(k) ==
    {t \in DOMAIN threads :
        threads[t].pc \in {"body", "adjust", "inc"} /\ threads[t].i = k}

\* The calls of adjust_colors that patch k has received from the loop.
Adjustments(k) == Len(texture_patches[k + 1].adjust_values)

\* C18: in the parallel region every patch index is claimed by exactly one
\* thread and adjust_colors is applied to the patch exactly once; no two
\* threads are on the same patch; the region is left only after every patch
\* has been processed.
C18_ExclusivePatches ==
    /\ pc = "parallel" =>
          \A k \in 0..(Len(texture_patches) - 1) :
              /\ Cardinality(Holders(k)) <= 1
              /\ k >= next_iteration => Holders(k) = {} /\ Adjustments(k) = 0
              /\ k < next_iteration =>
                    \/ Holders(k) = {} /\ Adjustments(k) = 1
                    \/ \E t \in Holders(k) :
                          Adjustments(k) = (IF threads[t].pc = "inc" THEN 1 ELSE 0)
    /\ RegionDone =>
          /\ next_iteration = Len(texture_patches)
          /\ \A k \in 0..(Len(texture_patches) - 1) : Adjustments(k) = 1

\* Two threads are inside different iterations at the same time.
C18_Witness ==
    /\ pc = "parallel"
    /\ \E t, u \in DOMAIN threads :
          /\ threads[t].pc = "adjust" /\ threads[u].pc = "adjust"
          /\ threads[t].i # threads[u].i
    /\ \E k \in 0..(Len(texture_patches) - 1) : Holders(k) = {} /\ Adjustments(k) = 1

\* The iterations of the loop that have run to their end.
CompletedIterations ==
    {k \in 0..(Len(texture_patches) - 1) : k < next_iteration /\ Holders(k) = {}}

\* The counter equals the number of patches processed so far and, once the
\* region is left, the number of patches.
CounterMatches ==
    /\ pc = "parallel" => texture_patch_counter = Cardinality(CompletedIterations)
    /\ RegionDone => texture_patch_counter = Len(texture_patches)

\* C19: the progress counter is incremented exactly once per processed
\* patch without lost updates, never decreases, and equals the number of
\* patches when the region ends.
C19_CounterExact ==
    /\ []CounterMatches
    /\ [][texture_patch_counter' >= texture_patch_counter]_vars

\* Both threads of a team have incremented the counter and the region is left.
C19_Witness ==
    /\ RegionDone
    /\ Len(threads) >= 2
    /\ texture_patch_counter >= 2

\* C20: the debug pass does not disturb the primary result. The primary
\* model is built and saved under out_prefix before the atlases are cleared
\* and the views replaced by debug embeddings; the debug pass saves only
\* under out_prefix + "_view_selection"; it generates its patches from the
\* graph labels the primary pass used.
C20_DebugIsolated ==
    /\ Count("save_model") <= 1
    /\ Has("clear_atlases") =>
          /\ Has("build_model") /\ Has("save_model")
          /\ First("build_model") < First("save_model")
          /\ First("save_model") < First("clear_atlases")
          /\ First("clear_atlases") < First("generate_debug_embeddings")
    /\ Has("save_view_selection_model") =>
          /\ Count("save_view_selection_model") = 1
          /\ First("generate_debug_embeddings") < First("save_view_selection_model")
    /\ Len(patch_input) <= 2
    /\ Len(patch_input) = 2 =>
          /\ Has("generate_debug_embeddings")
          /\ patch_input[2] = patch_input[1]

\* A run with the debug pass has ended, its graph carrying a view label.
C20_Witness ==
    /\ Completed /\ Has("save_view_selection_model")
    /\ Len(patch_input) = 2
    /\ \E k \in DOMAIN patch_input[2] : patch_input[2][k] # 0

\* The stage calls that only a labeling file, a data-cost file, a write
\* flag or the debug pass brings about.
FileAndDebugEvents ==
    {e \in Range(trace) :
        e \notin {"prepare_mesh", "generate_texture_views", "build_adjacency_graph",
                  "calculate_data_costs", "view_selection",
                  "generate_texture_patches", "global_seam_leveling",
                  "adjust_colors_pass", "local_seam_leveling",
                  "generate_texture_atlases", "build_model"}}

\* C21: in reconstructTexture conf has empty labeling_file and
\* data_cost_file and all write flags false, so the labeling-override path,
\* the data-cost load path, both error returns and the debug pass are never
\* taken; every call that returns has run calculate_data_costs and
\* view_selection and returns "".
C21_LibFixedPath ==
    mode = "lib" =>
        /\ ~conf.labeling_file /\ ~conf.data_cost_file
        /\ ~conf.write_intermediate_results /\ ~conf.write_view_selection_model
        /\ FileAndDebugEvents = {}
        /\ pc \notin {"load_labeling", "transfer", "debug_patches",
                      "debug_model", "exited"}
        /\ ret \in {NoReturn, ""}
        /\ pc = "returned" =>
              /\ ret = ""
              /\ Count("calculate_data_costs") = 1
              /\ Count("view_selection") = 1
              /\ First("calculate_data_costs") < First("view_selection")
              /\ First("view_selection") < First("generate_texture_patches")

\* A call of reconstructTexture has returned after both seam levelings.
C21_Witness ==
    /\ mode = "lib" /\ pc = "returned" /\ ret = ""
    /\ Has("calculate_data_costs") /\ Has("view_selection")
    /\ conf.global_seam_leveling /\ Has("local_seam_leveling")
    /\ num_faces > 0 /\ num_views > 0

====
